---------------------------- MODULE Spec2Model ----------------------------
(***************************************************************************)
(* Model of the CloudCreators front end.                                   *)
(*                                                                         *)
(*   ScheduleScan   (Frontend/src/ScheduleScan/Schedulescan.js): the scan  *)
(*                  scheduling form, its countdown timer, its status poll  *)
(*                  timer and the requests it has in flight.               *)
(*                                                                         *)
(*   UserOnboarding (Frontend/src/UserOnboarding/userOnboarding.js): the     *)
(*                  onboarding form, its pending list and its requests.    *)
(*                                                                         *)
(*   StandardConfigForm (Frontend/src/StandardConfig/StandardConfigForm.js):*)
(*                  the panes of the configuration form with their         *)
(*                  percentage-typed fields, one checkbox and one dropdown, *)
(*                  the validation and the payloads it sends.              *)
(*                                                                         *)
(*   SignIn         (Frontend/src/SignIn/SignIn.js): the sign-in form, its  *)
(*                  request, localStorage and the router.                  *)
(*                                                                         *)
(*   Dashboard      (Frontend/src/Dashboard/Dashboard.js): the resources    *)
(*                  loaded, the cost summaries and the filter form.        *)
(*                                                                         *)
(* Instants are milliseconds since an arbitrary origin.  A dayjs value is  *)
(* a record [inst, off]: the absolute instant and the UTC offset (minutes) *)
(* the value is displayed in.  A formatted UTC string is represented by    *)
(* the instant it denotes, which has no millisecond part.                  *)
(***************************************************************************)
EXTENDS Integers, Sequences, FiniteSets, TLC

(***************************** bounds **************************************)
\* the component is constructed at instant 0 or StartMs; from there the clock
\* advances in steps of ClockStep ms up to MaxNow ms
StartMs == 500
ClockStep == 1000
MaxNow == 7000
\* requests of one kind that may be in flight together
MaxStatusReqs == 2
MaxTriggerReqs == 2

\* UserOnboarding: pending entries, file readers, requests of a kind in flight
MaxList == 2
MaxReaders == 1
MaxOnbPosts == 1
MaxEnvReqs == 1
\* formatCountdown is applied to k * mark + d * e for k <= MaxMult, |d| <= MaxDelta
MaxMult == 2
MaxDelta == 2
\* StandardConfigForm: edits of the form by the user, requests of a kind in flight
MaxCfgEdits == 2
MaxCfgSubmits == 1
MaxCfgPosts == 1
MaxCfgGets == 1
\* SignIn: submissions of the form
MaxSignins == 2
\* Dashboard: resources the server answers with, and uses of the filter form
MaxResources == 3
MaxDashOps == 3

(************************ program constants ********************************)
CountdownMs == 1000
PollMs == 3000
MsPerSec == 1000

VARIABLES
  \* ---- ScheduleScan: environment
  phase,             \* "new" (constructed), "mounted", "gone" (torn down)
  route,             \* where the router is: "/schedule", "/signin", "/dashboard", "away"
  lsUser,            \* localStorage "user": "absent", "noEmail", "ok"
  localOff,          \* UTC offset (minutes) of the browser's own time zone
  now,               \* the wall clock, ms
  \* ---- ScheduleScan: React state
  selectedDateTime, selectedZone, countdownMsg, countdownActive,
  scanStatus, step, polling,
  lastAlert,         \* the alert() raised by the latest step, "none" if it raised none
  \* ---- ScheduleScan: timers (setInterval handles) and their next due time
  cdTimer, cdDue, pollTimer, pollDue,
  \* ---- ScheduleScan: how many intervals created by setInterval are not cleared
  cdLive, pollLive,
  \* ---- ScheduleScan: requests in flight
  lastScanReq,       \* GET /last_scan: "none", "inflight", "done"
  statusReqs,        \* number of GET /trigger_status awaiting their response
  triggerReqs,       \* payloads of the POST /triggers awaiting their response
  \* ---- ScheduleScan: history
  sincePollDone,     \* "none" | "completed" | "resubmitted"
  awaiting,          \* a scan was scheduled here and its completion has not been shown yet
  \* ---- formatCountdown on its own: an argument and the text it was formatted to
  fcMs, fcText, fcDone,
  \* ---- UserOnboarding
  uoUser,            \* the form: React state "user"
  usersList,         \* the pending entries
  uoReaders,         \* FileReaders still loading: the form value their onload closes over
  uoPosts,           \* payloads of the POST /environment_onboarding awaiting their response
  envReqs,           \* number of GET /environments awaiting their response
  uoAlert,           \* the alert() raised by the latest step, "none" if it raised none
  \* ---- StandardConfigForm
  allFormValues,     \* React state: field name -> value
  selectedType,      \* React state: key of the pane shown, "" before the load
  message,           \* React state: the message under the form
  cfgPosts,          \* payloads of the POST /api/configs awaiting their response
  cfgGets,           \* GET /api/config/latest awaiting their response
  cfgEdits,          \* edits the user has made
  cfgSubmits,        \* clicks on "Save Configuration" the user has made
  \* ---- SignIn
  siMounted,         \* the sign-in page is shown
  siPath,            \* the path the router is at
  siEmail, siPassword, submitting, siError,   \* React state
  siReq,             \* bodies of the POST /signin awaiting their response
  lsEmailItem,       \* localStorage "email"
  lsUserItem,        \* localStorage "user"
  siSubmits,         \* submissions of the form the user has made
  \* ---- Dashboard
  loading, resources, filteredResources, cioCostSummary, entityCostSummary,
  cloudProviderSummary, filters,              \* React state
  resData,           \* res.data: what GET /api/resources answered
  lastOp,            \* the latest step: "none", "load", "failed", "input", "apply", "clear"
  dashOps            \* uses of the filter form the user has made

ssVars == << phase, route, lsUser, localOff, now, selectedDateTime, selectedZone,
             countdownMsg, countdownActive, scanStatus, step, polling, lastAlert,
             cdTimer, cdDue, pollTimer, pollDue, cdLive, pollLive, lastScanReq,
             statusReqs, triggerReqs, sincePollDone, awaiting >>

fmtVars == << fcMs, fcText, fcDone >>

onbVars == << uoUser, usersList, uoReaders, uoPosts, envReqs, uoAlert >>

cfgVars == << allFormValues, selectedType, message, cfgPosts, cfgGets, cfgEdits, cfgSubmits >>

siVars == << siMounted, siPath, siEmail, siPassword, submitting, siError, siReq,
             lsEmailItem, lsUserItem, siSubmits >>

dashVars == << loading, resources, filteredResources, cioCostSummary, entityCostSummary,
               cloudProviderSummary, filters, resData, lastOp, dashOps >>

vars == << ssVars, fmtVars, onbVars, cfgVars, siVars, dashVars >>

\* what a step of one part leaves alone: the variables of the other parts
SSFrame == UNCHANGED << dashVars, fmtVars, onbVars, cfgVars, siVars >>
FmtFrame == UNCHANGED << dashVars, ssVars, onbVars, cfgVars, siVars >>
OnbFrame == UNCHANGED << dashVars, ssVars, fmtVars, cfgVars, siVars >>
CfgFrame == UNCHANGED << dashVars, ssVars, fmtVars, onbVars, siVars >>
SiFrame == UNCHANGED << dashVars, ssVars, fmtVars, onbVars, cfgVars >>
DashFrame == UNCHANGED << ssVars, fmtVars, onbVars, cfgVars, siVars >>

(************************* ScheduleScan: data ******************************)
steps == << "Schedule", "Waiting", "Scan In Progress", "Completed" >>

timezones == { "Asia/Kolkata", "Europe/London", "America/New_York", "America/Los_Angeles" }

InitialZone == "Asia/Kolkata"

\* UTC offset, in minutes, of a zone of the list (standard time)
ZoneOffset(z) ==
  CASE z = "Asia/Kolkata" -> 330
    [] z = "Europe/London" -> 0
    [] z = "America/New_York" -> -300
    [] z = "America/Los_Angeles" -> -480

\* offsets of the browsers the page may run in
LocalOffsets == { 330, -300 }

\* what the status endpoints may report; "" is an empty or missing status
Statuses == { "", "Pending", "InProgress", "Completed", "Failed" }

\* instants the user may pick, and scheduled_time values the server may hold
PickTimes == { 1000, 2500 }

\* ---- dayjs
TruncSec(i) == (i \div MsPerSec) * MsPerSec

DayjsNow == [ inst |-> now, off |-> localOff ]
\* d.utc().format(): "YYYY-MM-DDTHH:mm:ssZ", seconds precision
UtcFormat(d) == TruncSec(d.inst)
\* dayjs.utc(string)
DayjsUtc(s) == [ inst |-> s, off |-> 0 ]
\* d.tz(zone): same instant, displayed in zone
Tz(d, z) == [ inst |-> d.inst, off |-> ZoneOffset(z) ]
\* a.diff(b), milliseconds
Diff(a, b) == a.inst - b.inst
\* the wall-clock reading a dayjs value displays (ms, as if it were UTC)
WallClock(d) == d.inst + d.off * 60 * MsPerSec

\* ---- formatCountdown
NowText == [ isNow |-> TRUE, d |-> 0, h |-> 0, m |-> 0, s |-> 0 ]

\* formatCountdown with the hours taken from the whole count of seconds
formatCountdownNoDayWrap(ms) ==
  IF ms <= 0 THEN NowText
  ELSE LET totalSeconds == ms \div 1000
       IN [ isNow |-> FALSE,
            d |-> totalSeconds \div (3600 * 24),
            h |-> totalSeconds \div 3600,
            m |-> (totalSeconds % 3600) \div 60,
            s |-> totalSeconds % 60 ]

formatCountdown(ms) ==
  IF ms <= 0 THEN NowText
  ELSE LET totalSeconds == ms \div 1000
       IN [ isNow |-> FALSE,
            d |-> totalSeconds \div (3600 * 24),
            h |-> (totalSeconds % (3600 * 24)) \div 3600,
            m |-> (totalSeconds % 3600) \div 60,
            s |-> totalSeconds % 60 ]

\* ---- countdownMsg values
MsgNone == [ kind |-> "", text |-> NowText ]
MsgStartsIn(t) == [ kind |-> "Your scan starts in", text |-> t ]
MsgStarting == [ kind |-> "Scan is starting...", text |-> NowText ]
MsgCompleted == [ kind |-> "Scan is completed! Click Next for details.", text |-> NowText ]

\* ---- derived
canSchedule == scanStatus = "" \/ scanStatus = "Completed"

\* the controls disabled by canSchedule alone
ControlsEnabledNoStep == canSchedule

\* disabled={step > 0 || !canSchedule} on the select, the picker and the button
ControlsEnabled == ~(step > 0 \/ ~canSchedule)

\* next due time of an interval started, or having fired, now
Due(interval) == now + interval

(************************ ScheduleScan: effects ****************************)
\* the countdown effect returning no cleanup
CountdownEffectNoCleanup(dtSet) ==
  LET want == countdownActive' /\ step' = 1
      changed == \/ dtSet
                 \/ countdownActive' # countdownActive
                 \/ selectedZone' # selectedZone
                 \/ step' # step
      cleared == 0
  IN /\ cdTimer' = want
     /\ cdDue' = IF ~want THEN 0
                 ELSE IF changed \/ ~cdTimer THEN Due(CountdownMs) ELSE cdDue
     /\ cdLive' = IF changed
                  THEN (cdLive - cleared) + (IF want THEN 1 ELSE 0)
                  ELSE cdLive

\* the countdown effect, re-run after a render that changed one of its
\* dependencies; dtSet: setSelectedDateTime was called with a new object
CountdownEffect(dtSet) ==
  LET want == countdownActive' /\ step' = 1
      changed == \/ dtSet
                 \/ countdownActive' # countdownActive
                 \/ selectedZone' # selectedZone
                 \/ step' # step
      \* the previous run returned a cleanup only if it had set an interval
      cleared == IF countdownActive /\ step = 1 /\ cdTimer THEN 1 ELSE 0
  IN /\ cdTimer' = want
     /\ cdDue' = IF ~want THEN 0
                 ELSE IF changed \/ ~cdTimer THEN Due(CountdownMs) ELSE cdDue
     /\ cdLive' = IF changed
                  THEN (cdLive - cleared) + (IF want THEN 1 ELSE 0)
                  ELSE cdLive

\* the poll effect, re-run after a render that changed polling
PollEffect ==
  LET want == polling' /\ lsUser = "ok"
      cleared == IF pollTimer THEN 1 ELSE 0
  IN /\ pollTimer' = want
     /\ pollDue' = IF ~want THEN 0
                   ELSE IF polling' # polling \/ ~pollTimer THEN Due(PollMs) ELSE pollDue
     /\ pollLive' = IF polling' # polling
                    THEN (pollLive - cleared) + (IF want THEN 1 ELSE 0)
                    ELSE pollLive

(************************ ScheduleScan: actions ****************************)
SSInit ==
  /\ phase = "new"
  /\ route = "/schedule"
  /\ lsUser \in { "absent", "noEmail", "ok" }
  /\ localOff \in LocalOffsets
  /\ now \in { 0, StartMs }
  /\ selectedDateTime = DayjsNow
  /\ selectedZone = InitialZone
  /\ countdownMsg = MsgNone
  /\ countdownActive = FALSE
  /\ scanStatus = ""
  /\ step = 0
  /\ polling = FALSE
  /\ lastAlert = "none"
  /\ cdTimer = FALSE /\ cdDue = 0
  /\ pollTimer = FALSE /\ pollDue = 0
  /\ cdLive = 0 /\ pollLive = 0
  /\ lastScanReq = "none"
  /\ statusReqs = 0
  /\ triggerReqs = << >>
  /\ sincePollDone = "none"
  /\ awaiting = FALSE

\* the component is torn down: its state and timers are discarded and the
\* responses still in flight find no component to update
Gone(r, alert) ==
  /\ phase' = "gone"
  /\ route' = r
  /\ lastAlert' = alert
  /\ selectedDateTime' = [ inst |-> 0, off |-> 0 ]
  /\ selectedZone' = InitialZone
  /\ countdownMsg' = MsgNone
  /\ countdownActive' = FALSE
  /\ scanStatus' = ""
  /\ step' = 0
  /\ polling' = FALSE
  /\ cdTimer' = FALSE /\ cdDue' = 0
  /\ pollTimer' = FALSE /\ pollDue' = 0
  /\ cdLive' = cdLive - (IF countdownActive /\ step = 1 /\ cdTimer THEN 1 ELSE 0)
  /\ pollLive' = pollLive - (IF pollTimer THEN 1 ELSE 0)
  /\ lastScanReq' = "none"
  /\ statusReqs' = 0
  /\ triggerReqs' = << >>
  /\ sincePollDone' = "none"
  /\ awaiting' = FALSE
  /\ now' = 0
  /\ UNCHANGED << lsUser, localOff >>

\* the mount effect without its check of the stored user
MountNoLoginCheck ==
  /\ SSFrame
  /\ phase = "new"
  /\ phase' = "mounted"
  /\ lastScanReq' = "inflight"
  /\ lastAlert' = "none"
  /\ UNCHANGED << route, lsUser, localOff, now, selectedDateTime, selectedZone,
                  countdownMsg, countdownActive, scanStatus, step, polling,
                  cdTimer, cdDue, pollTimer, pollDue, cdLive, pollLive,
                  statusReqs, triggerReqs, sincePollDone, awaiting >>

\* first render: the mount effect
Mount ==
  /\ SSFrame
  /\ phase = "new"
  /\ IF lsUser = "absent"
     THEN Gone("/signin", "Please login first!")
     ELSE /\ phase' = "mounted"
          /\ lastScanReq' = "inflight"
          /\ lastAlert' = "none"
          /\ UNCHANGED << route, lsUser, localOff, now, selectedDateTime, selectedZone,
                          countdownMsg, countdownActive, scanStatus, step, polling,
                          cdTimer, cdDue, pollTimer, pollDue, cdLive, pollLive,
                          statusReqs, triggerReqs, sincePollDone, awaiting >>

Unmount ==
  /\ SSFrame
  /\ phase = "mounted"
  /\ Gone("away", "none")

Advance ==
  /\ SSFrame
  /\ phase = "mounted"
  /\ now + ClockStep <= MaxNow
  /\ now' = now + ClockStep
  /\ UNCHANGED << phase, route, lsUser, localOff, selectedDateTime, selectedZone,
                  countdownMsg, countdownActive, scanStatus, step, polling, cdTimer,
                  cdDue, pollTimer, pollDue, cdLive, pollLive, lastScanReq, statusReqs,
                  triggerReqs, sincePollDone, awaiting >>
  /\ lastAlert' = "none"

\* the .then of GET /last_scan not looking at scheduled_time
LastScanOkAnyPending(status, hasTime, scheduled_time) ==
  /\ SSFrame
  /\ phase = "mounted"
  /\ lastScanReq = "inflight"
  /\ lastScanReq' = "done"
  /\ scanStatus' = status
  /\ UNCHANGED selectedZone
  /\ IF status = "Pending"
     THEN /\ step' = 1
          /\ countdownActive' = TRUE
          /\ polling' = FALSE
          /\ selectedDateTime' = Tz(DayjsUtc(scheduled_time), InitialZone)
          /\ CountdownEffect(TRUE)
     ELSE /\ IF status = "InProgress"
             THEN step' = 2 /\ countdownActive' = FALSE /\ polling' = TRUE
             ELSE IF status = "Completed"
             THEN step' = 3 /\ countdownActive' = FALSE /\ polling' = FALSE
             ELSE step' = 0 /\ countdownActive' = FALSE /\ polling' = FALSE
          /\ UNCHANGED selectedDateTime
          /\ CountdownEffect(FALSE)
  /\ PollEffect
  /\ awaiting' = IF status = "Completed" THEN FALSE ELSE awaiting
  /\ UNCHANGED << phase, route, lsUser, localOff, now, countdownMsg,
                  statusReqs, triggerReqs, sincePollDone >>
  /\ lastAlert' = "none"

\* .then of GET /last_scan
LastScanOk(status, hasTime, scheduled_time) ==
  /\ SSFrame
  /\ phase = "mounted"
  /\ lastScanReq = "inflight"
  /\ lastScanReq' = "done"
  /\ scanStatus' = status
  /\ UNCHANGED selectedZone
  /\ IF status = "Pending" /\ hasTime
     THEN /\ step' = 1
          /\ countdownActive' = TRUE
          /\ polling' = FALSE
          /\ selectedDateTime' = Tz(DayjsUtc(scheduled_time), InitialZone)
          /\ CountdownEffect(TRUE)
     ELSE /\ IF status = "InProgress"
             THEN step' = 2 /\ countdownActive' = FALSE /\ polling' = TRUE
             ELSE IF status = "Completed"
             THEN step' = 3 /\ countdownActive' = FALSE /\ polling' = FALSE
             ELSE step' = 0 /\ countdownActive' = FALSE /\ polling' = FALSE
          /\ UNCHANGED selectedDateTime
          /\ CountdownEffect(FALSE)
  /\ PollEffect
  /\ awaiting' = IF status = "Completed" THEN FALSE ELSE awaiting
  /\ UNCHANGED << phase, route, lsUser, localOff, now, countdownMsg,
                  statusReqs, triggerReqs, sincePollDone >>
  /\ lastAlert' = "none"

\* .catch of GET /last_scan
LastScanFail ==
  /\ SSFrame
  /\ phase = "mounted"
  /\ lastScanReq = "inflight"
  /\ lastScanReq' = "done"
  /\ step' = 0
  /\ countdownActive' = FALSE
  /\ polling' = FALSE
  /\ UNCHANGED selectedZone
  /\ CountdownEffect(FALSE)
  /\ PollEffect
  /\ UNCHANGED << phase, route, lsUser, localOff, now, selectedDateTime,
                  countdownMsg, scanStatus, statusReqs, triggerReqs,
                  sincePollDone, awaiting >>
  /\ lastAlert' = "none"

\* one run of the countdown interval's callback
CountdownTick ==
  /\ SSFrame
  /\ phase = "mounted"
  /\ cdTimer
  /\ now >= cdDue
  /\ LET diff == Diff(selectedDateTime, Tz(DayjsNow, selectedZone))
     IN IF diff <= 0
        THEN /\ countdownActive' = FALSE
             /\ countdownMsg' = MsgStarting
             /\ step' = 2
             /\ polling' = TRUE
             /\ cdTimer' = FALSE /\ cdDue' = 0
             /\ cdLive' = cdLive - 1
             /\ PollEffect
             /\ sincePollDone' = IF sincePollDone = "resubmitted" THEN "none" ELSE sincePollDone
        ELSE /\ countdownMsg' = MsgStartsIn(formatCountdown(diff))
             /\ cdDue' = Due(CountdownMs)
             /\ UNCHANGED << countdownActive, step, polling, cdTimer, pollTimer, pollDue,
                             cdLive, pollLive, sincePollDone >>
  /\ UNCHANGED << phase, route, lsUser, localOff, now, selectedDateTime, selectedZone,
                  scanStatus, lastScanReq, statusReqs, triggerReqs, awaiting >>
  /\ lastAlert' = "none"

\* one run of the poll interval's callback, up to its await
PollTick ==
  /\ SSFrame
  /\ phase = "mounted"
  /\ pollTimer
  /\ now >= pollDue
  /\ statusReqs < MaxStatusReqs
  /\ statusReqs' = statusReqs + 1
  /\ pollDue' = Due(PollMs)
  /\ UNCHANGED << phase, route, lsUser, localOff, now, selectedDateTime, selectedZone,
                  countdownMsg, countdownActive, scanStatus, step, polling, cdTimer,
                  cdDue, pollTimer, cdLive, pollLive, lastScanReq, triggerReqs,
                  sincePollDone, awaiting >>
  /\ lastAlert' = "none"

\* the poll callback resumes with the response of GET /trigger_status
StatusOk(status) ==
  /\ SSFrame
  /\ phase = "mounted"
  /\ statusReqs > 0
  /\ statusReqs' = statusReqs - 1
  /\ scanStatus' = status
  /\ step' = IF status = "Completed" THEN 3 ELSE IF status = "InProgress" THEN 2 ELSE step
  /\ IF status = "Completed"
     THEN /\ countdownMsg' = MsgCompleted
          /\ polling' = FALSE
          /\ sincePollDone' = "completed"
     ELSE UNCHANGED << countdownMsg, polling, sincePollDone >>
  /\ UNCHANGED << countdownActive, selectedDateTime, selectedZone >>
  /\ CountdownEffect(FALSE)
  /\ PollEffect
  /\ awaiting' = IF status = "Completed" THEN FALSE ELSE awaiting
  /\ UNCHANGED << phase, route, lsUser, localOff, now, lastScanReq, triggerReqs >>
  /\ lastAlert' = "none"

\* the catch of the poll callback issuing the request again at once
StatusFailRetry ==
  /\ SSFrame
  /\ phase = "mounted"
  /\ statusReqs > 0
  /\ statusReqs' = statusReqs
  /\ scanStatus' = ""
  /\ UNCHANGED << phase, route, lsUser, localOff, now, selectedDateTime, selectedZone,
                  countdownMsg, countdownActive, step, polling, cdTimer,
                  cdDue, pollTimer, pollDue, cdLive, pollLive, lastScanReq, triggerReqs,
                  sincePollDone, awaiting >>
  /\ lastAlert' = "none"

\* the poll callback resumes in its catch
StatusFail ==
  /\ SSFrame
  /\ phase = "mounted"
  /\ statusReqs > 0
  /\ statusReqs' = statusReqs - 1
  /\ scanStatus' = ""
  /\ UNCHANGED << phase, route, lsUser, localOff, now, selectedDateTime, selectedZone,
                  countdownMsg, countdownActive, step, polling, cdTimer,
                  cdDue, pollTimer, pollDue, cdLive, pollLive, lastScanReq, triggerReqs,
                  sincePollDone, awaiting >>
  /\ lastAlert' = "none"

\* the payload handleSubmit builds
SubmitPayload ==
  [ email |-> "user", ScheduledTimeStamp |-> UtcFormat(Tz(selectedDateTime, selectedZone)) ]

\* click on "Schedule Scan": handleSubmit up to its await
SubmitClick ==
  /\ SSFrame
  /\ phase = "mounted"
  /\ ControlsEnabled
  /\ IF lsUser # "ok"
     THEN /\ lastAlert' = "User not logged in!"
          /\ UNCHANGED triggerReqs
     ELSE /\ Len(triggerReqs) < MaxTriggerReqs
          /\ triggerReqs' = Append(triggerReqs, SubmitPayload)
          /\ lastAlert' = "none"
  /\ UNCHANGED << phase, route, lsUser, localOff, now, selectedDateTime, selectedZone,
                  countdownMsg, countdownActive, scanStatus, step, polling, cdTimer,
                  cdDue, pollTimer, pollDue, cdLive, pollLive, lastScanReq, statusReqs,
                  sincePollDone, awaiting >>

Remove(seq, i) == SubSeq(seq, 1, i - 1) \o SubSeq(seq, i + 1, Len(seq))

\* handleSubmit resuming without starting the countdown
SubmitOkNoCountdown(i) ==
  /\ SSFrame
  /\ phase = "mounted"
  /\ i \in 1..Len(triggerReqs)
  /\ triggerReqs' = Remove(triggerReqs, i)
  /\ countdownActive' = FALSE
  /\ step' = 1
  /\ scanStatus' = "Pending"
  /\ polling' = FALSE
  /\ lastAlert' = "scheduled"
  /\ UNCHANGED << selectedDateTime, selectedZone >>
  /\ CountdownEffect(FALSE)
  /\ PollEffect
  /\ sincePollDone' = IF sincePollDone = "completed" THEN "resubmitted" ELSE sincePollDone
  /\ awaiting' = TRUE
  /\ UNCHANGED << phase, route, lsUser, localOff, now, countdownMsg, lastScanReq,
                  statusReqs >>

\* handleSubmit resumes with the response of POST /triggers
SubmitOk(i) ==
  /\ SSFrame
  /\ phase = "mounted"
  /\ i \in 1..Len(triggerReqs)
  /\ triggerReqs' = Remove(triggerReqs, i)
  /\ countdownActive' = TRUE
  /\ step' = 1
  /\ scanStatus' = "Pending"
  /\ polling' = FALSE
  /\ lastAlert' = "scheduled"
  /\ UNCHANGED << selectedDateTime, selectedZone >>
  /\ CountdownEffect(FALSE)
  /\ PollEffect
  /\ sincePollDone' = IF sincePollDone = "completed" THEN "resubmitted" ELSE sincePollDone
  /\ awaiting' = TRUE
  /\ UNCHANGED << phase, route, lsUser, localOff, now, countdownMsg, lastScanReq,
                  statusReqs >>

\* the catch of handleSubmit clearing the status as well
SubmitFailReset(i) ==
  /\ SSFrame
  /\ phase = "mounted"
  /\ i \in 1..Len(triggerReqs)
  /\ triggerReqs' = Remove(triggerReqs, i)
  /\ lastAlert' = "Failed to save schedule"
  /\ scanStatus' = ""
  /\ UNCHANGED << phase, route, lsUser, localOff, now, selectedDateTime, selectedZone,
                  countdownMsg, countdownActive, step, polling, cdTimer,
                  cdDue, pollTimer, pollDue, cdLive, pollLive, lastScanReq, statusReqs,
                  sincePollDone, awaiting >>

\* handleSubmit resumes in its catch
SubmitFail(i) ==
  /\ SSFrame
  /\ phase = "mounted"
  /\ i \in 1..Len(triggerReqs)
  /\ triggerReqs' = Remove(triggerReqs, i)
  /\ lastAlert' = "Failed to save schedule"
  /\ UNCHANGED << phase, route, lsUser, localOff, now, selectedDateTime, selectedZone,
                  countdownMsg, countdownActive, scanStatus, step, polling, cdTimer,
                  cdDue, pollTimer, pollDue, cdLive, pollLive, lastScanReq, statusReqs,
                  sincePollDone, awaiting >>

handleNext ==
  /\ SSFrame
  /\ phase = "mounted"
  /\ step = 3
  /\ Gone("/dashboard", "none")

handleZoneChange(newZone) ==
  /\ SSFrame
  /\ phase = "mounted"
  /\ ControlsEnabled
  /\ selectedDateTime' = Tz(DayjsUtc(UtcFormat(selectedDateTime)), newZone)
  /\ selectedZone' = newZone
  /\ UNCHANGED << countdownActive, step, polling >>
  /\ CountdownEffect(TRUE)
  /\ PollEffect
  /\ UNCHANGED << phase, route, lsUser, localOff, now, countdownMsg, scanStatus,
                  lastScanReq, statusReqs, triggerReqs, sincePollDone,
                  awaiting >>
  /\ lastAlert' = "none"

\* DateTimePicker onChange: the picker hands back a dayjs value that displays
\* either in the offset of the value it was given or in the browser's own
PickerChange(inst, off) ==
  /\ SSFrame
  /\ phase = "mounted"
  /\ ControlsEnabled
  /\ off \in { selectedDateTime.off, localOff }
  /\ selectedDateTime' = [ inst |-> inst, off |-> off ]
  /\ UNCHANGED << countdownActive, step, polling, selectedZone >>
  /\ CountdownEffect(TRUE)
  /\ PollEffect
  /\ UNCHANGED << phase, route, lsUser, localOff, now, countdownMsg, scanStatus,
                  lastScanReq, statusReqs, triggerReqs, sincePollDone,
                  awaiting >>
  /\ lastAlert' = "none"

\* "Schedule Again" going back to the initial zone as well
ScheduleAgainResetsZone ==
  /\ SSFrame
  /\ phase = "mounted"
  /\ step = 3
  /\ step' = 0
  /\ scanStatus' = ""
  /\ countdownMsg' = MsgNone
  /\ selectedDateTime' = DayjsNow
  /\ countdownActive' = FALSE
  /\ polling' = FALSE
  /\ selectedZone' = InitialZone
  /\ CountdownEffect(TRUE)
  /\ PollEffect
  /\ UNCHANGED << phase, route, lsUser, localOff, now, lastScanReq,
                  statusReqs, triggerReqs, sincePollDone, awaiting >>
  /\ lastAlert' = "none"

\* click on "Schedule Again"
ScheduleAgain ==
  /\ SSFrame
  /\ phase = "mounted"
  /\ step = 3
  /\ step' = 0
  /\ scanStatus' = ""
  /\ countdownMsg' = MsgNone
  /\ selectedDateTime' = DayjsNow
  /\ countdownActive' = FALSE
  /\ polling' = FALSE
  /\ UNCHANGED selectedZone
  /\ CountdownEffect(TRUE)
  /\ PollEffect
  /\ UNCHANGED << phase, route, lsUser, localOff, now, lastScanReq,
                  statusReqs, triggerReqs, sincePollDone, awaiting >>
  /\ lastAlert' = "none"

SSNext ==
  \/ Mount
  \/ Unmount
  \/ Advance
  \/ \E s \in Statuses, hasTime \in BOOLEAN, t \in PickTimes : LastScanOk(s, hasTime, t)
  \/ LastScanFail
  \/ CountdownTick
  \/ PollTick
  \/ \E s \in Statuses : StatusOk(s)
  \/ StatusFail
  \/ SubmitClick
  \/ \E i \in 1..MaxTriggerReqs : SubmitOk(i)
  \/ \E i \in 1..MaxTriggerReqs : SubmitFail(i)
  \/ handleNext
  \/ \E z \in timezones : handleZoneChange(z)
  \/ \E t \in PickTimes, o \in LocalOffsets \cup { ZoneOffset(z) : z \in timezones } :
        PickerChange(t, o)
  \/ ScheduleAgain

\* the ScheduleScan variables at rest, for the specifications of other parts
SSIdle == SSInit /\ lsUser = "ok" /\ localOff = 330 /\ now = 0

(***************************** UserOnboarding ******************************)
\* null
Null == "null"

\* options of the cloud provider select the model uses (Azure takes the path of AWS)
CloudNames == { "AWS", "GCP" }
\* options of the environment select the model uses
EnvOptions == { "Production" }
\* what a text input may hold: nothing, or some text
OnbTexts == { "", "x" }
\* the data URL a FileReader yields
DataUrl == "data:application/json;base64"

EmptyUser ==
  [ cloudName |-> "", environment |-> "", rootId |-> "", managementUnitId |-> "",
    srvaccntName |-> "", srvacctPass |-> "", gcpJsonFile |-> Null ]

\* !x of a string or null
Falsy(x) == x = "" \/ x = Null

\* handleAddUser's validation with the GCP branch left out
OnbIncompleteNoGcp(u) ==
  \/ Falsy(u.cloudName)
  \/ Falsy(u.environment)
  \/ Falsy(u.rootId)
  \/ Falsy(u.managementUnitId)
  \/ (u.cloudName # "GCP" /\ (Falsy(u.srvaccntName) \/ Falsy(u.srvacctPass)))

\* the condition under which handleAddUser alerts and returns
OnbIncomplete(u) ==
  \/ Falsy(u.cloudName)
  \/ Falsy(u.environment)
  \/ Falsy(u.rootId)
  \/ Falsy(u.managementUnitId)
  \/ IF u.cloudName = "GCP"
     THEN Falsy(u.gcpJsonFile)
     ELSE Falsy(u.srvaccntName) \/ Falsy(u.srvacctPass)

OnbIdle ==
  /\ uoUser = EmptyUser
  /\ usersList = << >>
  /\ uoReaders = { }
  /\ uoPosts = << >>
  /\ envReqs = 0
  /\ uoAlert = "none"

\* after the first render: the effect has requested the user's environments
OnbInit ==
  /\ uoUser = EmptyUser
  /\ usersList = << >>
  /\ uoReaders = { }
  /\ uoPosts = << >>
  /\ envReqs = 1
  /\ uoAlert = "none"

\* .then of GET /environments
EnvLoaded ==
  /\ OnbFrame
  /\ envReqs > 0
  /\ envReqs' = envReqs - 1
  /\ uoAlert' = "none"
  /\ UNCHANGED << uoUser, usersList, uoReaders, uoPosts >>

\* onChange of the cloud provider select
OnbSetCloud(v) ==
  /\ OnbFrame
  /\ v # uoUser.cloudName
  /\ uoUser' = [ uoUser EXCEPT !.cloudName = v, !.srvaccntName = "", !.srvacctPass = "",
                               !.gcpJsonFile = Null ]
  /\ uoAlert' = "none"
  /\ UNCHANGED << usersList, uoReaders, uoPosts, envReqs >>

\* onChange of the environment select and of the text inputs; the service
\* account inputs are rendered only for a provider other than GCP
OnbSetField(f, v) ==
  /\ OnbFrame
  /\ f \in { "srvaccntName", "srvacctPass" } => uoUser.cloudName # "GCP"
  /\ v # uoUser[f]
  /\ uoUser' = [ uoUser EXCEPT ![f] = v ]
  /\ uoAlert' = "none"
  /\ UNCHANGED << usersList, uoReaders, uoPosts, envReqs >>

\* a file is chosen in the input rendered for GCP: a reader starts loading,
\* its onload closing over the form value of this render
handleFileChange ==
  /\ OnbFrame
  /\ uoUser.cloudName = "GCP"
  /\ Cardinality(uoReaders) < MaxReaders
  /\ uoReaders' = uoReaders \cup { uoUser }
  /\ uoAlert' = "none"
  /\ UNCHANGED << uoUser, usersList, uoPosts, envReqs >>

\* reader.onload
OnbReaderLoad(closure) ==
  /\ OnbFrame
  /\ closure \in uoReaders
  /\ uoReaders' = uoReaders \ { closure }
  /\ uoUser' = [ closure EXCEPT !.gcpJsonFile = DataUrl ]
  /\ uoAlert' = "none"
  /\ UNCHANGED << usersList, uoPosts, envReqs >>

handleAddUser ==
  /\ OnbFrame
  /\ IF OnbIncomplete(uoUser)
     THEN /\ uoAlert' = "Please fill all fields"
          /\ UNCHANGED << uoUser, usersList >>
     ELSE /\ Len(usersList) < MaxList
          /\ usersList' = Append(usersList, uoUser)
          /\ uoUser' = EmptyUser
          /\ uoAlert' = "none"
  /\ UNCHANGED << uoReaders, uoPosts, envReqs >>

handleEditUser(index) ==
  /\ OnbFrame
  /\ index \in 1..Len(usersList)
  /\ uoUser' = usersList[index]
  /\ usersList' = Remove(usersList, index)
  /\ uoAlert' = "none"
  /\ UNCHANGED << uoReaders, uoPosts, envReqs >>

handleDeleteUser(index) ==
  /\ OnbFrame
  /\ index \in 1..Len(usersList)
  /\ usersList' = Remove(usersList, index)
  /\ uoAlert' = "none"
  /\ UNCHANGED << uoUser, uoReaders, uoPosts, envReqs >>

\* click on "Submit", rendered while the list is not empty: handleSubmit up
\* to its await
OnbSubmitClick ==
  /\ OnbFrame
  /\ Len(usersList) > 0
  /\ Len(uoPosts) < MaxOnbPosts
  /\ uoPosts' = Append(uoPosts, [ users |-> usersList, email |-> "user" ])
  /\ uoAlert' = "none"
  /\ UNCHANGED << uoUser, usersList, uoReaders, envReqs >>

\* handleSubmit resumes with an OK response
OnbSubmitOk(i) ==
  /\ OnbFrame
  /\ i \in 1..Len(uoPosts)
  /\ envReqs < MaxEnvReqs
  /\ uoPosts' = Remove(uoPosts, i)
  /\ uoAlert' = "message"
  /\ usersList' = << >>
  /\ envReqs' = envReqs + 1
  /\ UNCHANGED << uoUser, uoReaders >>

\* handleSubmit resumes with a response that is not OK, or in its catch
OnbSubmitFail(i, alert) ==
  /\ OnbFrame
  /\ i \in 1..Len(uoPosts)
  /\ uoPosts' = Remove(uoPosts, i)
  /\ uoAlert' = alert
  /\ UNCHANGED << uoUser, usersList, uoReaders, envReqs >>

OnbFields == { "environment", "rootId", "managementUnitId", "srvaccntName", "srvacctPass" }

OnbValues(f) == IF f = "environment" THEN EnvOptions \cup { "" } ELSE OnbTexts

OnbNext ==
  \/ EnvLoaded
  \/ \E v \in CloudNames \cup { "" } : OnbSetCloud(v)
  \/ \E f \in OnbFields : \E v \in OnbValues(f) : OnbSetField(f, v)
  \/ handleFileChange
  \/ \E c \in uoReaders : OnbReaderLoad(c)
  \/ handleAddUser
  \/ \E i \in 1..MaxList : handleEditUser(i)
  \/ \E i \in 1..MaxList : handleDeleteUser(i)
  \/ OnbSubmitClick
  \/ \E i \in 1..MaxOnbPosts : OnbSubmitOk(i)
  \/ \E i \in 1..MaxOnbPosts :
        \E a \in { "Error occurred during submission", "Error submitting data" } :
           OnbSubmitFail(i, a)

(*************************** StandardConfigForm ****************************)
\* A JavaScript value is a record [t, s, n]: its type, and the symbols of a
\* string or the value of a number.  A digit is a symbol of its own; the name
\* of an option of a dropdown is one symbol.
Undefined == [ t |-> "undefined", s |-> << >>, n |-> 0 ]
JsNull == [ t |-> "null", s |-> << >>, n |-> 0 ]
Str(symbols) == [ t |-> "string", s |-> symbols, n |-> 0 ]
Num(k) == [ t |-> "number", s |-> << >>, n |-> k ]
JsTrue == [ t |-> "boolean", s |-> << >>, n |-> 1 ]
JsFalse == [ t |-> "boolean", s |-> << >>, n |-> 0 ]
\* an array: s holds the text of its items
JsArray(items) == [ t |-> "array", s |-> items, n |-> 0 ]

Digits == { "0", "1", "2", "3", "4", "5", "6", "7", "8", "9" }

DigitValue(c) ==
  CASE c = "0" -> 0 [] c = "1" -> 1 [] c = "2" -> 2 [] c = "3" -> 3 [] c = "4" -> 4
    [] c = "5" -> 5 [] c = "6" -> 6 [] c = "7" -> 7 [] c = "8" -> 8 [] c = "9" -> 9

RECURSIVE DigitsValue(_)
DigitsValue(symbols) ==
  IF symbols = << >> THEN 0
  ELSE 10 * DigitsValue(SubSeq(symbols, 1, Len(symbols) - 1))
         + DigitValue(symbols[Len(symbols)])

\* Number(v): [nan, n]
NaN == [ nan |-> TRUE, n |-> 0 ]
Number(v) ==
  CASE v.t = "number" -> [ nan |-> FALSE, n |-> v.n ]
    [] v.t = "null" -> [ nan |-> FALSE, n |-> 0 ]
    [] v.t = "undefined" -> NaN
    [] v.t = "string" ->
         IF \A i \in 1..Len(v.s) : v.s[i] \in Digits
         THEN [ nan |-> FALSE, n |-> DigitsValue(v.s) ]
         ELSE NaN

\* !!v
Truthy(v) ==
  CASE v.t = "number" -> v.n # 0
    [] v.t = "string" -> v.s # << >>
    [] v.t = "boolean" -> v.n = 1
    [] v.t = "array" -> TRUE
    [] OTHER -> FALSE

\* the percentage-typed fields of CONFIG_TYPES, in the order of the list
PctFields == << "cmp_cpu_usage", "cmp_memory_usage", "cmp_network_usage",
                "k8s_node_cpu_percentage", "k8s_node_memory_percentage",
                "k8s_volume_percentage" >>

PctFieldSet == { PctFields[i] : i \in 1..Len(PctFields) }

\* options of db_type the model uses
DbTypes == { "sql", "mysql" }

\* `${db}_db_size`
DbSizeKey(db) == CASE db = "sql" -> "sql_db_size" [] db = "mysql" -> "mysql_db_size"

DbSizeKeys == { DbSizeKey(db) : db \in DbTypes }

\* CONFIG_TYPES: the panes in the order of the list, each with the fields
\* of it that the model follows
CONFIG_TYPES ==
  << [ key |-> "general", fields |-> << "gen_untagged" >> ],
     [ key |-> "compute_engine",
       fields |-> << "cmp_cpu_usage", "cmp_memory_usage", "cmp_network_usage" >> ],
     [ key |-> "kubernetes",
       fields |-> << "k8s_node_cpu_percentage", "k8s_node_memory_percentage",
                     "k8s_volume_percentage" >> ],
     [ key |-> "cloud_storage", fields |-> << "stor_access_frequency" >> ],
     [ key |-> "database", fields |-> << "db_type" >> ] >>

TypeKeys == { CONFIG_TYPES[i].key : i \in 1..Len(CONFIG_TYPES) }

FieldsOf(type) == { type.fields[j] : j \in 1..Len(type.fields) }

\* the fields of type "checkbox"
CheckboxFields == { "gen_untagged" }

\* every field of CONFIG_TYPES
TypeFields == UNION { FieldsOf(CONFIG_TYPES[i]) : i \in 1..Len(CONFIG_TYPES) }

\* CONFIG_TYPES.find(t => t.key === key)
TypeOf(key) == CONFIG_TYPES[CHOOSE i \in 1..Len(CONFIG_TYPES) : CONFIG_TYPES[i].key = key]

CfgKeys == TypeFields \cup DbSizeKeys

\* the fields the validation walks through: the percentages, then db_type
CfgOrder == PctFields \o << "db_type" >>

\* isNaN(val) || val < 1 || val > 100, without the upper limit
OutOfRangeNoMax(num) == num.nan \/ num.n < 1

\* isNaN(val) || val < 1 || val > 100
OutOfRange(num) == num.nan \/ num.n < 1 \/ num.n > 100

\* the validation of one field of handleSubmit's loops
FieldInvalid(vals, f) ==
  IF f = "db_type"
  THEN LET dbType == vals["db_type"]
       IN /\ Truthy(dbType)
          /\ LET dbSizeVal == vals[DbSizeKey(dbType.s[1])]
             IN /\ dbSizeVal # Undefined /\ dbSizeVal # Str(<< >>)
                /\ OutOfRange(Number(dbSizeVal))
  ELSE LET raw == vals[f]
       IN /\ ~(raw = Undefined \/ raw = JsNull \/ raw = Str(<< >>))
          /\ OutOfRange(Number(raw))

hasError(vals) == \E i \in 1..Len(CfgOrder) : FieldInvalid(vals, CfgOrder[i])

\* the field the loops break at
FirstInvalid(vals) ==
  CfgOrder[CHOOSE i \in 1..Len(CfgOrder) :
             /\ FieldInvalid(vals, CfgOrder[i])
             /\ \A j \in 1..(i - 1) : ~FieldInvalid(vals, CfgOrder[j])]

\* the payload handleSubmit builds, as the request body carries it: a key
\* whose value is undefined is not sent
CfgPayload(vals) ==
  [ k \in CfgKeys |->
      IF k = "db_type"
      THEN IF Truthy(vals["db_type"]) THEN vals["db_type"] ELSE JsNull
      ELSE IF k \in DbSizeKeys
      THEN IF Truthy(vals["db_type"]) /\ k = DbSizeKey(vals["db_type"].s[1])
           THEN IF vals[k] # Str(<< >>) THEN vals[k] ELSE JsNull
           ELSE Undefined
      ELSE IF vals[k] = Undefined \/ vals[k] = Str(<< >>) THEN JsNull ELSE vals[k] ]

\* onChange of a percentage input and of the DB size input: what is stored
\* for the text the input holds
Sanitise(text) ==
  LET digitsOnly == SelectSeq(text, LAMBDA c : c \in Digits)
      cut == IF Len(digitsOnly) > 3 THEN SubSeq(digitsOnly, 1, 3) ELSE digitsOnly
  IN IF cut # << >> /\ DigitsValue(cut) > 100
     THEN SubSeq(cut, 1, Len(cut) - 1)
     ELSE cut

\* texts an input may hold after a key stroke or a paste
RawInputs == { << >>, << "0" >>, << "1", "0", "1" >>, << "9", "9", "9", "9" >>,
               << "5", "a" >> }

\* values the server may hold for a percentage or a DB size
LoadedValues == { JsNull, Str(<< >>), Str(<< "x" >>), Num(0), Num(50), Num(101) }

\* configurations /api/config/latest may answer with: at most one key
\* present, a percentage being the first or the last of the list
ConfigOf(f, v) == [ k \in CfgKeys |-> IF k = f THEN v ELSE Undefined ]

LoadedKeys == { "cmp_cpu_usage", "k8s_volume_percentage", "sql_db_size" }

\* the percentage inputs the user types in: the first and the last of the list
EditedFields == { "cmp_cpu_usage", "k8s_volume_percentage" }

Configs ==
  { ConfigOf(f, v) : f \in LoadedKeys, v \in LoadedValues }
    \cup { ConfigOf("db_type", v) : v \in { JsNull, Str(<< >>) } \cup { Str(<< db >>) : db \in DbTypes } }
    \cup { ConfigOf("gen_untagged", v) : v \in { JsNull, JsFalse, JsTrue } }
    \cup { ConfigOf("stor_access_frequency", v) : v \in { JsNull, Str(<< "Hot" >>) } }

\* the value a field of CONFIG_TYPES or a DB size takes from a configuration
FromConfig(config, k) ==
  IF k \in CheckboxFields
  THEN IF config[k] = JsTrue THEN JsTrue ELSE JsFalse
  ELSE IF config[k] # Undefined THEN config[k] ELSE Str(<< >>)

\* the pane fetchConfig selects: the first with a field whose configured
\* value is not undefined, "" or false; the first pane when there is none
firstPaneWithConfig(config) ==
  LET has(type) == \E f \in FieldsOf(type) :
                     config[f] # Undefined /\ config[f] # Str(<< >>) /\ config[f] # JsFalse
      found == { i \in 1..Len(CONFIG_TYPES) : has(CONFIG_TYPES[i]) }
  IN IF found # { }
     THEN CONFIG_TYPES[CHOOSE i \in found : \A j \in found : i <= j].key
     ELSE CONFIG_TYPES[1].key

\* messages
MsgRange(f) == [ kind |-> "must be between 1 and 100", field |-> f ]
MsgSaved == [ kind |-> "Configuration saved successfully!", field |-> "" ]
MsgFailed == [ kind |-> "Failed to save configuration.", field |-> "" ]
MsgEmpty == [ kind |-> "", field |-> "" ]

CfgIdle ==
  /\ allFormValues = [ k \in CfgKeys |-> Undefined ]
  /\ selectedType = ""
  /\ message = MsgEmpty
  /\ cfgPosts = << >>
  /\ cfgGets = << >>
  /\ cfgEdits = 0
  /\ cfgSubmits = 0

\* after the first render: the effect has requested the latest configuration
CfgInit ==
  /\ allFormValues = [ k \in CfgKeys |-> Undefined ]
  /\ selectedType = ""
  /\ message = MsgEmpty
  /\ cfgPosts = << >>
  /\ cfgGets = << [ from |-> "effect", db_type |-> Undefined ] >>
  /\ cfgEdits = 0
  /\ cfgSubmits = 0

\* the response of the effect's GET: the form takes the configuration
CfgLoadOk(config) ==
  /\ CfgFrame
  /\ cfgGets # << >> /\ cfgGets[1].from = "effect"
  /\ cfgGets' = Tail(cfgGets)
  /\ allFormValues' = [ k \in CfgKeys |-> FromConfig(config, k) ]
  /\ selectedType' = firstPaneWithConfig(config)
  /\ UNCHANGED << message, cfgPosts, cfgEdits, cfgSubmits >>

\* the effect's catch: the fields of CONFIG_TYPES are emptied, no DB size is set
CfgLoadFail ==
  /\ CfgFrame
  /\ cfgGets # << >> /\ cfgGets[1].from = "effect"
  /\ cfgGets' = Tail(cfgGets)
  /\ allFormValues' = [ k \in CfgKeys |->
                           IF k \in DbSizeKeys THEN Undefined
                           ELSE IF k \in CheckboxFields THEN JsFalse ELSE Str(<< >>) ]
  /\ selectedType' = CONFIG_TYPES[1].key
  /\ UNCHANGED << message, cfgPosts, cfgEdits, cfgSubmits >>

\* a click on the button of a pane
handleTypeChange(typeKey) ==
  /\ CfgFrame
  /\ typeKey # selectedType
  /\ selectedType' = typeKey
  /\ UNCHANGED << allFormValues, message, cfgPosts, cfgGets, cfgEdits, cfgSubmits >>

\* the fields whose inputs are on the page: those of the pane shown
Rendered(f) == selectedType # "" /\ f \in FieldsOf(TypeOf(selectedType))

\* onChange of a checkbox
CfgCheckboxChange(f) ==
  /\ CfgFrame
  /\ cfgEdits < MaxCfgEdits
  /\ Rendered(f)
  /\ cfgEdits' = cfgEdits + 1
  /\ allFormValues' = [ allFormValues EXCEPT ![f] =
                         IF Truthy(allFormValues[f]) THEN JsFalse ELSE JsTrue ]
  /\ UNCHANGED << selectedType, message, cfgPosts, cfgGets, cfgSubmits >>

\* onChange of a percentage input
CfgPctChange(f, text) ==
  /\ CfgFrame
  /\ cfgEdits < MaxCfgEdits
  /\ Rendered(f)
  /\ cfgEdits' = cfgEdits + 1
  /\ allFormValues' = [ allFormValues EXCEPT ![f] = Str(Sanitise(text)) ]
  /\ UNCHANGED << selectedType, message, cfgPosts, cfgGets, cfgSubmits >>

\* onChange of the DB size input, rendered while a db_type is selected
CfgDbSizeChange(text) ==
  /\ CfgFrame
  /\ cfgEdits < MaxCfgEdits
  /\ Rendered("db_type")
  /\ Truthy(allFormValues["db_type"])
  /\ cfgEdits' = cfgEdits + 1
  /\ allFormValues' = [ allFormValues EXCEPT ![DbSizeKey(allFormValues["db_type"].s[1])] =
                                                 Str(Sanitise(text)) ]
  /\ UNCHANGED << selectedType, message, cfgPosts, cfgGets, cfgSubmits >>

\* onChange of the DB type select
handleInputChange(value) ==
  /\ CfgFrame
  /\ cfgEdits < MaxCfgEdits
  /\ Rendered("db_type")
  /\ value # allFormValues["db_type"]
  /\ cfgEdits' = cfgEdits + 1
  /\ allFormValues' = [ allFormValues EXCEPT !["db_type"] = value ]
  /\ UNCHANGED << selectedType, message, cfgPosts, cfgGets, cfgSubmits >>

\* "Save Configuration": handleSubmit up to its first await
CfgSubmit ==
  /\ CfgFrame
  /\ cfgSubmits < MaxCfgSubmits
  /\ cfgSubmits' = cfgSubmits + 1
  /\ IF hasError(allFormValues)
     THEN /\ message' = MsgRange(FirstInvalid(allFormValues))
          /\ UNCHANGED cfgPosts
     ELSE /\ Len(cfgPosts) < MaxCfgPosts
          /\ message' = MsgEmpty
          /\ cfgPosts' = Append(cfgPosts, [ email |-> "user",
                                            body |-> CfgPayload(allFormValues),
                                            db_type |-> allFormValues["db_type"] ])
  /\ UNCHANGED << allFormValues, selectedType, cfgGets, cfgEdits >>

\* handleSubmit resumes with the response of the POST and requests the
\* latest configuration
CfgPostOk(i) ==
  /\ CfgFrame
  /\ i \in 1..Len(cfgPosts)
  /\ Len(cfgGets) < MaxCfgGets
  /\ cfgPosts' = Remove(cfgPosts, i)
  /\ message' = MsgSaved
  /\ cfgGets' = Append(cfgGets, [ from |-> "submit", db_type |-> cfgPosts[i].db_type ])
  /\ UNCHANGED << allFormValues, selectedType, cfgEdits, cfgSubmits >>

\* handleSubmit's catch, reached from the POST
CfgPostFail(i) ==
  /\ CfgFrame
  /\ i \in 1..Len(cfgPosts)
  /\ cfgPosts' = Remove(cfgPosts, i)
  /\ message' = MsgFailed
  /\ UNCHANGED << allFormValues, selectedType, cfgGets, cfgEdits, cfgSubmits >>

\* handleSubmit resumes with the latest configuration
CfgReloadOk(i, config) ==
  /\ CfgFrame
  /\ i \in 1..Len(cfgGets)
  /\ cfgGets[i].from = "submit"
  /\ cfgGets' = Remove(cfgGets, i)
  /\ allFormValues' =
       [ k \in CfgKeys |->
           IF k = "db_type"
           THEN IF Truthy(cfgGets[i].db_type) THEN cfgGets[i].db_type ELSE Str(<< >>)
           ELSE FromConfig(config, k) ]
  /\ UNCHANGED << selectedType, message, cfgPosts, cfgEdits, cfgSubmits >>

\* handleSubmit's catch, reached from the GET
CfgReloadFail(i) ==
  /\ CfgFrame
  /\ i \in 1..Len(cfgGets)
  /\ cfgGets[i].from = "submit"
  /\ cfgGets' = Remove(cfgGets, i)
  /\ message' = MsgFailed
  /\ UNCHANGED << allFormValues, selectedType, cfgPosts, cfgEdits, cfgSubmits >>

CfgNext ==
  \/ \E c \in Configs : CfgLoadOk(c)
  \/ CfgLoadFail
  \/ \E typeKey \in TypeKeys : handleTypeChange(typeKey)
  \/ \E f \in CheckboxFields : CfgCheckboxChange(f)
  \/ \E f \in EditedFields, text \in RawInputs : CfgPctChange(f, text)
  \/ \E text \in RawInputs : CfgDbSizeChange(text)
  \/ \E v \in { Str(<< >>) } \cup { Str(<< db >>) : db \in DbTypes } : handleInputChange(v)
  \/ CfgSubmit
  \/ \E i \in 1..MaxCfgPosts : CfgPostOk(i)
  \/ \E i \in 1..MaxCfgPosts : CfgPostFail(i)
  \/ \E i \in 1..MaxCfgGets, c \in Configs : CfgReloadOk(i, c)
  \/ \E i \in 1..MaxCfgGets : CfgReloadFail(i)

(********************* formatCountdown on its own **************************)
FmtMarks == { 0, 1000, 60 * 1000, 3600 * 1000, 24 * 3600 * 1000,
              (((2 * 24 + 3) * 60 + 4) * 60 + 5) * 1000 }

FmtInputs == { k * mk + d * e : k \in 1..MaxMult, mk \in FmtMarks,
                                d \in (0 - MaxDelta)..MaxDelta, e \in { 1, 999, 1000 } }

FmtIdle == fcMs = 0 /\ fcText = NowText /\ fcDone = FALSE

FmtInit == fcMs \in FmtInputs /\ fcText = NowText /\ fcDone = FALSE

\* the countdown callback formats a difference
FmtApply ==
  /\ FmtFrame
  /\ ~fcDone
  /\ fcText' = formatCountdown(fcMs)
  /\ fcDone' = TRUE
  /\ UNCHANGED fcMs

\* the next callback sees another difference
FmtNextInput(ms) ==
  /\ FmtFrame
  /\ fcDone
  /\ fcMs' = ms
  /\ fcText' = NowText
  /\ fcDone' = FALSE

FmtNext == FmtApply \/ \E ms \in FmtInputs : FmtNextInput(ms)

(******************************** SignIn ***********************************)
\* what the user may have typed in the email and password inputs
SiTexts == { "", "ann@x.io", "bob@x.io" }

\* result.user of an OK response: the account the server signed in
SiUsers == { [ email |-> "ann@x.io", name |-> "Ann" ], [ email |-> "bob@x.io", name |-> "Bob" ] }

\* JSON.stringify(value): the text of the value
JsonStringify(value) == << "json", value >>

\* the page the router shows for a path: route paths match in any letter case
PageOf(path) ==
  CASE path \in { "/", "/signin" } -> "SignIn"
    [] path = "/signup" -> "SignUp"
    [] path \in { "/userOnboarding", "/UserOnboarding" } -> "UserOnboarding"
    [] OTHER -> "none"

\* bodies of a non-OK response: the JSON null, or an object with detail
\* and message present or not
SiDetails == { Undefined, Str(<< >>), Str(<< "Invalid credentials" >>),
               JsArray(<< "value is not a valid email address" >>) }
SiMessages == { Undefined, Str(<< >>), Str(<< "Signin failed" >>) }
SiLoginFailed == Str(<< "Login failed" >>)
SiUnreachable == Str(<< "Unable to reach the server. Please try again." >>)
SiNoError == Str(<< >>)

\* result.detail || result.message || "Login failed"
SiErrorOf(result) ==
  IF Truthy(result.detail) THEN result.detail
  ELSE IF Truthy(result.message) THEN result.message
  ELSE SiLoginFailed

SiIdle ==
  /\ siMounted = FALSE
  /\ siPath = "/"
  /\ siEmail = ""
  /\ siPassword = ""
  /\ submitting = FALSE
  /\ siError = SiNoError
  /\ siReq = << >>
  /\ lsEmailItem = Null
  /\ lsUserItem = Null
  /\ siSubmits = 0

\* the sign-in page after its first render; localStorage is empty or holds
\* what an earlier sign-in left
SiInit ==
  /\ siMounted = TRUE
  /\ siPath \in { "/", "/signin" }
  /\ siEmail = ""
  /\ siPassword = ""
  /\ submitting = FALSE
  /\ siError = SiNoError
  /\ siReq = << >>
  /\ \/ lsEmailItem = Null /\ lsUserItem = Null
     \/ \E u \in SiUsers : lsEmailItem = u.email /\ lsUserItem = JsonStringify(u)
  /\ siSubmits = 0

\* onChange of the email input
SiSetEmail(v) ==
  /\ SiFrame
  /\ siMounted
  /\ v # siEmail
  /\ siEmail' = v
  /\ UNCHANGED << siMounted, siPath, siPassword, submitting, siError, siReq,
                  lsEmailItem, lsUserItem, siSubmits >>

\* onChange of the password input
SiSetPassword(v) ==
  /\ SiFrame
  /\ siMounted
  /\ v # siPassword
  /\ siPassword' = v
  /\ UNCHANGED << siMounted, siPath, siEmail, submitting, siError, siReq,
                  lsEmailItem, lsUserItem, siSubmits >>

\* handleSignin up to the await of fetch.  The form submits only with both
\* required inputs filled and the submit button not disabled.
handleSigninNoFlag ==
  /\ SiFrame
  /\ siMounted
  /\ ~submitting
  /\ siEmail # "" /\ siPassword # ""
  /\ siSubmits < MaxSignins
  /\ siSubmits' = siSubmits + 1
  /\ siError' = SiNoError
  /\ submitting' = submitting
  /\ siReq' = Append(siReq, [ email |-> siEmail, password |-> siPassword ])
  /\ UNCHANGED << siMounted, siPath, siEmail, siPassword, lsEmailItem, lsUserItem >>

handleSignin ==
  /\ SiFrame
  /\ siMounted
  /\ ~submitting
  /\ siEmail # "" /\ siPassword # ""
  /\ siSubmits < MaxSignins
  /\ siSubmits' = siSubmits + 1
  /\ siError' = SiNoError
  /\ submitting' = TRUE
  /\ siReq' = Append(siReq, [ email |-> siEmail, password |-> siPassword ])
  /\ UNCHANGED << siMounted, siPath, siEmail, siPassword, lsEmailItem, lsUserItem >>

\* what the catch and the finally do; the state of a page that is no longer
\* shown is gone, and setting it has no effect
SiCaught ==
  /\ siError' = IF siMounted THEN SiUnreachable ELSE siError
  /\ submitting' = FALSE
  /\ UNCHANGED << siMounted, siPath, lsEmailItem, lsUserItem >>

\* an OK response whose body has a user: both items are stored and the router
\* goes to the onboarding page, which takes the sign-in page down
SigninOk(user) ==
  /\ SiFrame
  /\ siReq # << >>
  /\ siReq' = Tail(siReq)
  /\ lsEmailItem' = user.email
  /\ lsUserItem' = JsonStringify(user)
  /\ siPath' = "/userOnboarding"
  /\ siMounted' = FALSE
  /\ submitting' = FALSE
  /\ UNCHANGED << siEmail, siPassword, siError, siSubmits >>

\* an OK response whose body has no user: result.user.email throws before
\* anything is stored, and the catch takes over
SigninOkNoUser ==
  /\ SiFrame
  /\ siReq # << >>
  /\ siReq' = Tail(siReq)
  /\ SiCaught
  /\ UNCHANGED << siEmail, siPassword, siSubmits >>

\* a non-OK response with a JSON body; reading a property of null throws
SigninNotOk(result) ==
  /\ SiFrame
  /\ siReq # << >>
  /\ siReq' = Tail(siReq)
  /\ IF result = JsNull
     THEN SiCaught
     ELSE /\ siError' = IF siMounted THEN SiErrorOf(result) ELSE siError
          /\ submitting' = FALSE
          /\ UNCHANGED << siMounted, siPath, lsEmailItem, lsUserItem >>
  /\ UNCHANGED << siEmail, siPassword, siSubmits >>

\* fetch rejects (network error), or response.json() rejects (the body of
\* the response, OK or not, is not JSON)
SigninThrows ==
  /\ SiFrame
  /\ siReq # << >>
  /\ siReq' = Tail(siReq)
  /\ SiCaught
  /\ UNCHANGED << siEmail, siPassword, siSubmits >>

\* "I don't have account": the router goes to /signup
SiToSignup ==
  /\ SiFrame
  /\ siMounted
  /\ siPath' = "/signup"
  /\ siMounted' = FALSE
  /\ submitting' = FALSE
  /\ UNCHANGED << siEmail, siPassword, siError, siReq, lsEmailItem, lsUserItem,
                  siSubmits >>

SiResults ==
  { JsNull } \cup { [ detail |-> d, message |-> m ] : d \in SiDetails, m \in SiMessages }

SiNext ==
  \/ \E v \in SiTexts : SiSetEmail(v)
  \/ \E v \in SiTexts : SiSetPassword(v)
  \/ handleSignin
  \/ \E u \in SiUsers : SigninOk(u)
  \/ SigninOkNoUser
  \/ \E r \in SiResults : SigninNotOk(r)
  \/ SigninThrows
  \/ SiToSignup

(******************************* Dashboard *********************************)
\* parseFloat(v): [nan, n]; the texts of the model are digits or not numeric
parseFloat(v) ==
  CASE v.t = "number" -> [ nan |-> FALSE, n |-> v.n ]
    [] v.t = "string" ->
         IF v.s # << >> /\ \A i \in 1..Len(v.s) : v.s[i] \in Digits
         THEN [ nan |-> FALSE, n |-> DigitsValue(v.s) ]
         ELSE NaN
    [] OTHER -> NaN

\* parseFloat(r.TotalCost) || 0
CostOf(r) == IF parseFloat(r.TotalCost).nan THEN 0 ELSE parseFloat(r.TotalCost).n

\* [...seq].sort((a, b) => key(b) - key(a)), keys[i] being the key of
\* seq[i]: descending, stable
SortDesc(seq, keys) ==
  LET n == Len(seq)
      pos(i) == 1 + Cardinality({ j \in 1..n : keys[j] > keys[i] })
                  + Cardinality({ j \in 1..(i - 1) : keys[j] = keys[i] })
  IN [ p \in 1..n |-> seq[CHOOSE i \in 1..n : pos(i) = p] ]

\* the sort of the resources by TotalCost, descending
SortedByCost(seq) == SortDesc(seq, [ i \in 1..Len(seq) |-> CostOf(seq[i]) ])

RECURSIVE SumCost(_)
\* the sum of Number(curr.TotalCost) over the items of seq
SumCost(seq) ==
  IF seq = << >> THEN 0 ELSE Number(Head(seq).TotalCost).n + SumCost(Tail(seq))

\* Object.entries of the reduce that adds up TotalCost by a field: one entry
\* for each value of the field, in the order the values first come up; items
\* with the field or the cost falsy are passed over
CostBy(seq, field) ==
  LET counted(r) == Truthy(r[field]) /\ Truthy(r.TotalCost)
      first == { i \in 1..Len(seq) :
                   /\ counted(seq[i])
                   /\ \A j \in 1..(i - 1) : ~(counted(seq[j]) /\ seq[j][field] = seq[i][field]) }
      nth(p) == CHOOSE i \in first : Cardinality({ j \in first : j < i }) = p - 1
  IN [ p \in 1..Cardinality(first) |->
         [ name |-> seq[nth(p)][field],
           cost |-> SumCost(SelectSeq(seq, LAMBDA r : counted(r) /\ r[field] = seq[nth(p)][field])) ] ]

\* .sort((a, b) => b.cost - a.cost)
SortedSummary(entries) == SortDesc(entries, [ i \in 1..Len(entries) |-> entries[i].cost ])

\* the criteria of the filter form the model follows; ResourceType and Region
\* are treated as CIO is
FilterKeys == { "CloudProvider", "Entity", "CIO", "TotalCost" }

\* useState({ CIO: "", ..., TotalCost: "" }): no CloudProvider, no Entity
InitialFilters ==
  [ k \in FilterKeys |-> IF k \in { "CIO", "TotalCost" } THEN Str(<< >>) ELSE Undefined ]

\* the filters clearFilters sets
ClearedFilters == [ k \in FilterKeys |-> Str(<< >>) ]

\* the condition of applyFilter's filter on one item
Passes(item, f) ==
  /\ f["CloudProvider"] = Str(<< >>) \/ item.CloudProvider = f["CloudProvider"]
  /\ f["Entity"] = Str(<< >>) \/ item.Entity = f["Entity"]
  /\ f["CIO"] = Str(<< >>) \/ item.CIO = f["CIO"]
  /\ \/ f["TotalCost"] = Str(<< >>)
     \/ /\ ~parseFloat(f["TotalCost"]).nan
        /\ item.TotalCost.t = "number"
        /\ item.TotalCost.n <= parseFloat(f["TotalCost"]).n

\* resources the server may hold
Resource(provider, entity, cio, cost) ==
  [ CloudProvider |-> provider, Entity |-> entity, CIO |-> cio, TotalCost |-> cost ]

DashResources ==
  { Resource(Str(<< "aws" >>), Str(<< "retail" >>), Str(<< "ann" >>), Num(5)),
    Resource(Str(<< "gcp" >>), Str(<< "bank" >>), Str(<< "ann" >>), Num(3)),
    Resource(Str(<< "gcp" >>), Str(<< "retail" >>), Str(<< "bob" >>), Num(4)),
    Resource(Undefined, Undefined, Str(<< "bob" >>), Num(2)),
    Resource(Str(<< "aws" >>), Str(<< "bank" >>), Str(<< "bob" >>), Num(0)) }

\* res.data: up to MaxResources different resources, in any order
DashDatas ==
  { d \in UNION { [ 1..n -> DashResources ] : n \in 0..MaxResources } :
      \A i, j \in 1..Len(d) : i # j => d[i] # d[j] }

\* values the inputs of the filter form may hand to handleInputChange
FilterValues(name) ==
  CASE name = "CloudProvider" ->
         { Str(<< >>) } \cup { cloudProviderSummary[i].name : i \in 1..Len(cloudProviderSummary) }
    [] name = "Entity" ->
         { Str(<< >>) } \cup { entityCostSummary[i].name : i \in 1..Len(entityCostSummary) }
    [] name = "CIO" -> { Str(<< >>), Str(<< "ann" >>) }
    [] name = "TotalCost" -> { Str(<< >>), Str(<< "3" >>) }

DashIdle ==
  /\ loading = FALSE
  /\ resData = << >>
  /\ resources = << >>
  /\ filteredResources = << >>
  /\ cioCostSummary = << >>
  /\ entityCostSummary = << >>
  /\ cloudProviderSummary = << >>
  /\ filters = InitialFilters
  /\ lastOp = "none"
  /\ dashOps = 0

\* after the first render: the effect has requested the resources
DashInit ==
  /\ loading = TRUE
  /\ resData = << >>
  /\ resources = << >>
  /\ filteredResources = << >>
  /\ cioCostSummary = << >>
  /\ entityCostSummary = << >>
  /\ cloudProviderSummary = << >>
  /\ filters = InitialFilters
  /\ lastOp = "none"
  /\ dashOps = 0

\* .then of GET /api/resources
DashLoadOk(data) ==
  /\ DashFrame
  /\ loading
  /\ resData' = data
  /\ resources' = SortedByCost(data)
  /\ filteredResources' = SortedByCost(data)
  /\ cioCostSummary' = SortedSummary(CostBy(data, "CIO"))
  /\ entityCostSummary' = SortedSummary(CostBy(data, "Entity"))
  /\ cloudProviderSummary' = SortedSummary(CostBy(data, "CloudProvider"))
  /\ loading' = FALSE
  /\ lastOp' = "load"
  /\ UNCHANGED << filters, dashOps >>

\* .catch of GET /api/resources
DashLoadFail ==
  /\ DashFrame
  /\ loading
  /\ loading' = FALSE
  /\ lastOp' = "failed"
  /\ UNCHANGED << resData, resources, filteredResources, cioCostSummary,
                  entityCostSummary, cloudProviderSummary, filters, dashOps >>

\* handleInputChange of the Dashboard: onChange of an input of the filter form
DashInputChange(name, value) ==
  /\ DashFrame
  /\ dashOps < MaxDashOps
  /\ value \in FilterValues(name)
  /\ filters[name] # value
  /\ dashOps' = dashOps + 1
  /\ filters' = [ filters EXCEPT ![name] = value ]
  /\ lastOp' = "input"
  /\ UNCHANGED << loading, resData, resources, filteredResources, cioCostSummary,
                  entityCostSummary, cloudProviderSummary >>

\* "Apply"
applyFilter ==
  /\ DashFrame
  /\ dashOps < MaxDashOps
  /\ dashOps' = dashOps + 1
  /\ LET filtered == SelectSeq(resources, LAMBDA item : Passes(item, filters))
     IN /\ cloudProviderSummary' = CostBy(filtered, "CloudProvider")
        /\ entityCostSummary' = CostBy(filtered, "Entity")
        /\ filteredResources' = SortedByCost(filtered)
  /\ lastOp' = "apply"
  /\ UNCHANGED << loading, resData, resources, cioCostSummary, filters >>

\* "Clear"
clearFilters ==
  /\ DashFrame
  /\ dashOps < MaxDashOps
  /\ dashOps' = dashOps + 1
  /\ filters' = ClearedFilters
  /\ filteredResources' = resources
  /\ cloudProviderSummary' = CostBy(resources, "CloudProvider")
  /\ entityCostSummary' = CostBy(resources, "Entity")
  /\ lastOp' = "clear"
  /\ UNCHANGED << loading, resData, resources, cioCostSummary >>

DashNext ==
  \/ \E data \in DashDatas : DashLoadOk(data)
  \/ DashLoadFail
  \/ \E name \in FilterKeys :
       \E value \in { Str(<< >>), Str(<< "3" >>) }
                      \cup { Str(<< x >>) : x \in { "aws", "gcp", "retail", "bank", "ann" } } :
          DashInputChange(name, value)
  \/ applyFilter
  \/ clearFilters

(***************************** specifications ******************************)
Init == SSInit /\ FmtIdle /\ OnbIdle /\ CfgIdle /\ SiIdle /\ DashIdle
Next == SSNext
Spec == Init /\ [][Next]_vars

InitFmt == FmtInit /\ SSIdle /\ OnbIdle /\ CfgIdle /\ SiIdle /\ DashIdle
NextFmt == FmtNext
SpecFmt == InitFmt /\ [][NextFmt]_vars

InitOnb == OnbInit /\ SSIdle /\ FmtIdle /\ CfgIdle /\ SiIdle /\ DashIdle
NextOnb == OnbNext
SpecOnb == InitOnb /\ [][NextOnb]_vars

InitCfg == CfgInit /\ SSIdle /\ FmtIdle /\ OnbIdle /\ SiIdle /\ DashIdle
NextCfg == CfgNext
SpecCfg == InitCfg /\ [][NextCfg]_vars

InitSignIn == SiInit /\ SSIdle /\ FmtIdle /\ OnbIdle /\ CfgIdle /\ DashIdle
NextSignIn == SiNext
SpecSignIn == InitSignIn /\ [][NextSignIn]_vars

InitDash == DashInit /\ SSIdle /\ FmtIdle /\ OnbIdle /\ CfgIdle /\ SiIdle
NextDash == DashNext
SpecDash == InitDash /\ [][NextDash]_vars

(******************************* claims ************************************)
\* a step in which the poll callback resumed with a response
PollResponseStep == phase' = "mounted" /\ statusReqs' = statusReqs - 1
\* a step in which a request to /trigger_status was issued
PollRequestStep == statusReqs' = statusReqs + 1

\* C1: once a status poll response reports "Completed", polling is switched
\* off and the poll timer is cleared, and no request to /trigger_status is
\* issued from then until a new schedule action (a successful handleSubmit
\* whose countdown then expires); while polling is on, no poll response other
\* than "Completed" switches it off.
C1_PollingStopsAtCompleted ==
  [][ /\ (PollResponseStep /\ scanStatus' = "Completed") => (~polling' /\ ~pollTimer')
      /\ PollRequestStep => sincePollDone = "none"
      /\ (PollResponseStep /\ polling /\ scanStatus' # "Completed") => polling'
    ]_vars

\* a step that took the component from Waiting to Scan In Progress
LeavesWaitingStep == phase' = "mounted" /\ step = 1 /\ step' = 2
\* a step in which a POST to /triggers was issued, and the payload it carried
PostStep == phase' = "mounted" /\ Len(triggerReqs') = Len(triggerReqs) + 1
Posted == triggerReqs'[Len(triggerReqs')]
\* a step in which handleSubmit resumed with a successful response
PostOkStep ==
  phase' = "mounted" /\ Len(triggerReqs') = Len(triggerReqs) - 1 /\ lastAlert' = "scheduled"
\* a step in which the initial status arrived
LastScanStep == phase' = "mounted" /\ lastScanReq = "inflight" /\ lastScanReq' = "done"
\* a step in which the user chose another zone
ZoneStep == phase' = "mounted" /\ selectedZone' # selectedZone

\* C2: the component leaves Waiting (step 1) for Scan In Progress (step 2) at
\* the first countdown tick whose time N satisfies N >= T, T the scheduled
\* instant, and at no moment with N < T; in that step the countdown timer is
\* cancelled, countdownActive becomes false and polling becomes true.
C2_SwitchAtExpiry ==
  [][ /\ LeavesWaitingStep =>
            /\ now >= selectedDateTime.inst
            /\ ~cdTimer' /\ ~countdownActive' /\ polling'
      /\ (CountdownTick /\ now >= selectedDateTime.inst) => LeavesWaitingStep
    ]_vars

\* C4: a change of zone leaves the instant of selectedDateTime exactly as it
\* was and changes nothing but selectedZone and the local representation.
C4_ZoneChangeKeepsInstant ==
  [][ ZoneStep =>
        /\ selectedDateTime'.inst = selectedDateTime.inst
        /\ selectedDateTime'.off = ZoneOffset(selectedZone')
        /\ UNCHANGED << step, scanStatus, countdownActive, polling, countdownMsg,
                        statusReqs, triggerReqs, lastScanReq >>
    ]_vars

\* the instant meant by the date and time the picker shows when they are read
\* as a time of the selected zone (to the second, as the payload carries it)
ShownInSelectedZone ==
  TruncSec(WallClock(selectedDateTime) - ZoneOffset(selectedZone) * 60 * MsPerSec)

\* C7: handleSubmit posts exactly {email, ScheduledTimeStamp}, and the
\* timestamp is the instant that the shown date and time denote in the
\* selected zone.
C7_PostedIsShownInstant ==
  [][ PostStep =>
        /\ DOMAIN Posted = { "email", "ScheduledTimeStamp" }
        /\ Posted.email = "user"
        /\ Posted.ScheduledTimeStamp = ShownInSelectedZone
    ]_vars

C9_NeverStranded ==
  (phase = "mounted" /\ awaiting) =>
     \/ cdTimer \/ pollTimer
     \/ statusReqs > 0 \/ Len(triggerReqs) > 0 \/ lastScanReq = "inflight"

Within1To100(v) ==
  /\ v.t \in { "number", "string" } /\ v # Str(<< >>)
  /\ ~Number(v).nan /\ Number(v).n \in 1..100
\* a field that holds something
Filled(v) == v # Undefined /\ v # JsNull /\ v # Str(<< >>)
\* the percentage-typed keys of a payload
PctKeys == PctFieldSet \cup DbSizeKeys
\* a step in which a POST to /api/configs was issued
CfgPostStep == Len(cfgPosts') = Len(cfgPosts) + 1

\* C5: handleSubmit issues no POST to /api/configs while a filled percentage
\* field, or the filled DB size of the selected db_type, is not a number
\* within [1,100]: it shows the range message instead; and every
\* percentage-typed value in every payload sent is null or within [1,100].
C5_PercentagesInRange ==
  /\ [](\A p \in 1..Len(cfgPosts) : \A k \in PctKeys :
           LET v == cfgPosts[p].body[k]
           IN v # Undefined => (v = JsNull \/ Within1To100(v)))
  /\ [][ /\ CfgPostStep =>
              /\ \A f \in PctFieldSet :
                    Filled(allFormValues[f]) => Within1To100(allFormValues[f])
              /\ \A db \in DbTypes :
                    (allFormValues["db_type"] = Str(<< db >>)
                       /\ Filled(allFormValues[DbSizeKey(db)]))
                      => Within1To100(allFormValues[DbSizeKey(db)])
         /\ (cfgSubmits' = cfgSubmits + 1 /\ ~CfgPostStep) =>
              (message'.kind = "must be between 1 and 100" /\ UNCHANGED cfgGets)
       ]_vars

\* a payload is in flight that carries a percentage loaded from the server as
\* a number and the DB size typed for the selected db_type
C5_Witness ==
  /\ Len(cfgPosts) = 1
  /\ cfgPosts[1].body["cmp_cpu_usage"] = Num(50)
  /\ cfgPosts[1].body["db_type"] = Str(<< "sql" >>)
  /\ cfgPosts[1].body["sql_db_size"] = Str(<< "9", "9" >>)

\* the condition of C6 on an entry
OnbComplete(u) ==
  /\ u.cloudName # "" /\ u.environment # "" /\ u.rootId # "" /\ u.managementUnitId # ""
  /\ IF u.cloudName = "GCP"
     THEN u.gcpJsonFile # Null /\ u.gcpJsonFile # ""
     ELSE u.srvaccntName # "" /\ u.srvacctPass # ""

\* C6: handleAddUser appends the form to the pending list only if it is
\* complete (cloudName, environment, rootId, managementUnitId non-empty and,
\* for GCP, a service-account JSON loaded, otherwise name and password
\* non-empty); an incomplete form is refused with an alert and no request is
\* issued; and every entry of the pending list and of every payload POSTed to
\* /environment_onboarding is complete.
C6_OnlyCompleteEntries ==
  /\ [](/\ \A i \in 1..Len(usersList) : OnbComplete(usersList[i])
        /\ \A p \in 1..Len(uoPosts) :
              \A i \in 1..Len(uoPosts[p].users) : OnbComplete(uoPosts[p].users[i]))
  /\ [][ /\ Len(usersList') = Len(usersList) + 1 =>
               (OnbComplete(uoUser) /\ usersList' = Append(usersList, uoUser))
         /\ uoAlert' = "Please fill all fields" =>
               (~OnbComplete(uoUser) /\ UNCHANGED << usersList, uoPosts, envReqs >>)
         /\ (handleAddUser /\ ~OnbComplete(uoUser)) =>
               (uoAlert' = "Please fill all fields" /\ UNCHANGED << usersList, uoPosts, envReqs >>)
       ]_vars

\* a payload of two entries, one of them for GCP, is in flight while the form
\* holds an incomplete GCP entry that was just refused
C6_Witness ==
  /\ Len(uoPosts) = 1 /\ Len(uoPosts[1].users) = 2
  /\ \E i \in 1..2 : uoPosts[1].users[i].cloudName = "GCP"
  /\ uoUser.cloudName = "GCP" /\ uoUser.gcpJsonFile = Null /\ uoUser.rootId # ""
  /\ uoAlert = "Please fill all fields"

\* C3: for ms > 0 formatCountdown yields days, hours, minutes and seconds that
\* are non-negative, with hours < 24, minutes < 60, seconds < 60, and that add
\* up to floor(ms / 1000) seconds; for ms <= 0 it yields "now!" and no
\* negative component.
C3_Decomposition ==
  fcDone =>
    /\ fcMs > 0 =>
          /\ ~fcText.isNow
          /\ fcText.d >= 0 /\ fcText.h >= 0 /\ fcText.m >= 0 /\ fcText.s >= 0
          /\ fcText.h < 24 /\ fcText.m < 60 /\ fcText.s < 60
          /\ fcText.d * 86400 + fcText.h * 3600 + fcText.m * 60 + fcText.s
               = fcMs \div 1000
    /\ fcMs <= 0 =>
          /\ fcText.isNow
          /\ fcText.d >= 0 /\ fcText.h >= 0 /\ fcText.m >= 0 /\ fcText.s >= 0

\* a difference of more than a day with every component non-zero was formatted
C3_Witness ==
  /\ fcDone /\ fcMs > 24 * 3600 * 1000
  /\ fcText.d > 0 /\ fcText.h > 0 /\ fcText.m > 0 /\ fcText.s > 0

\* C11: once the initial status has been loaded the step only moves forward:
\* it never decreases and never goes from 0 or 1 straight to 3, the reset
\* from 3 to 0 by "Schedule Again" being the only move back.
C11_StepMovesForward ==
  [][ (lastScanReq = "done" /\ phase' = "mounted" /\ step' # step) =>
         \/ (step' > step /\ ~(step \in { 0, 1 } /\ step' = 3))
         \/ (ScheduleAgain /\ step = 3 /\ step' = 0)
    ]_vars

\* C12: with no user in localStorage the component is never mounted: mounting
\* goes to /signin with the login alert, and no request to /last_scan,
\* /trigger_status or /triggers is ever in flight and no poll interval exists.
C12_NoUserNoRequests ==
  lsUser = "absent" =>
     /\ phase # "mounted"
     /\ lastScanReq = "none" /\ statusReqs = 0 /\ triggerReqs = << >>
     /\ ~pollTimer /\ pollLive = 0
     /\ phase = "gone" => (route = "/signin" /\ lastAlert = "Please login first!")

\* the mount effect has sent the user without a stored login to /signin
C12_Witness == lsUser = "absent" /\ phase = "gone" /\ route = "/signin"

\* C13: a failed GET /last_scan leaves the component idle and schedulable:
\* step 0, countdownActive false, polling false, no timer, controls enabled.
C13_FailedLoadIsIdle ==
  [][ (LastScanStep /\ LastScanFail) =>
        /\ step' = 0 /\ ~countdownActive' /\ ~polling'
        /\ ~cdTimer' /\ ~pollTimer' /\ cdLive' = 0 /\ pollLive' = 0
        /\ (scanStatus' = "" \/ scanStatus' = "Completed")
    ]_vars

\* C14: a failed status poll sets scanStatus to "" and changes nothing else:
\* step, polling and the poll timer with its next due time stay as they are,
\* no request is issued by the failure, and a request is only ever issued by a
\* tick of the poll timer that is due.
C14_FailedPollOnlyClearsStatus ==
  [][ /\ (statusReqs > 0 /\ StatusFail) =>
           /\ scanStatus' = "" /\ statusReqs' = statusReqs - 1
           /\ UNCHANGED << step, polling, pollTimer, pollDue, pollLive, countdownActive,
                           cdTimer, cdDue, cdLive, countdownMsg, selectedDateTime,
                           selectedZone, triggerReqs, lastScanReq >>
      /\ PollRequestStep => (pollTimer /\ now >= pollDue /\ pollDue' = now + PollMs)
    ]_vars

\* a poll has failed during the scan: step 2 with an empty status and the
\* poll timer still running
C14_Witness ==
  /\ phase = "mounted" /\ step = 2 /\ scanStatus = "" /\ polling /\ pollTimer
  /\ statusReqs = 0

\* C15: at most one countdown interval and at most one poll interval exist; a
\* countdown interval exists only while countdownActive at step 1 and is
\* replaced when the selected time or zone changes, a poll interval exists
\* only while polling, and none exists once the component is torn down.
C15_OneIntervalEach ==
  /\ [](/\ cdLive \in { 0, 1 } /\ pollLive \in { 0, 1 }
        /\ cdLive = 1 => (phase = "mounted" /\ countdownActive /\ step = 1 /\ cdTimer)
        /\ pollLive = 1 => (phase = "mounted" /\ polling /\ pollTimer)
        /\ phase = "gone" => (cdLive = 0 /\ pollLive = 0))
  /\ [][ (cdTimer /\ cdTimer'
            /\ (selectedDateTime' # selectedDateTime \/ selectedZone' # selectedZone))
           => (cdLive' = 1 /\ cdDue' = now + CountdownMs) ]_vars

\* a scan scheduled here is in progress: its countdown interval is gone and
\* one poll interval runs
C15_Witness ==
  /\ phase = "mounted" /\ awaiting /\ step = 2 /\ scanStatus = "Pending"
  /\ cdLive = 0 /\ pollLive = 1

\* a step in which handleSubmit resumed in its catch
PostFailStep ==
  phase' = "mounted" /\ Len(triggerReqs') = Len(triggerReqs) - 1 /\ lastAlert' # "scheduled"

\* C16: a failed POST to /triggers raises an alert and leaves step,
\* scanStatus, countdownActive, polling, selectedDateTime and selectedZone as
\* they were; the request is not issued again.
C16_FailedPostChangesNothing ==
  [][ PostFailStep =>
        /\ lastAlert' = "Failed to save schedule"
        /\ UNCHANGED << step, scanStatus, countdownActive, polling, selectedDateTime,
                        selectedZone, cdTimer, pollTimer, statusReqs, lastScanReq >>
        /\ \E i \in 1..Len(triggerReqs) : triggerReqs' = Remove(triggerReqs, i)
    ]_vars

\* the POST of a picked time has failed: the form is as it was
C16_Witness ==
  /\ phase = "mounted" /\ lastAlert = "Failed to save schedule"
  /\ step = 0 /\ scanStatus = "" /\ selectedDateTime.inst = 2500 /\ triggerReqs = << >>

\* C17: "Schedule Again" and "Next" are offered at step 3; "Schedule Again"
\* gives step 0, scanStatus empty, no countdown message, countdownActive
\* false, polling false, the selected time reset to now, selectedZone as it
\* was; "Next" only navigates to /dashboard.
C17_ScheduleAgainResets ==
  [][ /\ (phase = "mounted" /\ ScheduleAgain) =>
           /\ step = 3 /\ step' = 0 /\ scanStatus' = "" /\ countdownMsg' = MsgNone
           /\ ~countdownActive' /\ ~polling' /\ ~cdTimer' /\ ~pollTimer'
           /\ selectedDateTime'.inst = now
           /\ UNCHANGED << selectedZone, phase, route, statusReqs, triggerReqs,
                           lastScanReq >>
      /\ (phase = "mounted" /\ handleNext) =>
           /\ step = 3 /\ phase' = "gone" /\ route' = "/dashboard" /\ lastAlert' = "none"
           /\ statusReqs' = 0 /\ triggerReqs' = << >>
    ]_vars

\* after a completed poll the user chose "Schedule Again" with a zone other
\* than the initial one selected
C17_Witness ==
  /\ phase = "mounted" /\ sincePollDone = "completed" /\ step = 0 /\ scanStatus = ""
  /\ countdownMsg = MsgNone /\ selectedZone # InitialZone /\ selectedDateTime.inst = now

\* C18: for a logged-in user, whenever the component shows step 2 the poll
\* timer is active and whenever it shows step 1 the countdown timer is active.
C18_TimerForStep ==
  (phase = "mounted" /\ lsUser = "ok") =>
     /\ step = 2 => pollTimer
     /\ step = 1 => cdTimer

\* C19: once the initial status has been processed, step 0 means the schedule
\* controls are enabled; the component never sits at step 0 with scheduling
\* disabled and no timer running.
C19_StepZeroIsSchedulable ==
  (phase = "mounted" /\ lastScanReq = "done" /\ step = 0) =>
     /\ ControlsEnabled
     /\ ~(~ControlsEnabled /\ ~cdTimer /\ ~pollTimer)

\* C20: the response of GET /last_scan is mapped to the state as follows:
\* "Pending" with a scheduled_time gives step 1, countdown active, polling off
\* and selectedDateTime at the instant of scheduled_time; "InProgress" gives
\* step 2, countdown off, polling on; "Completed" gives step 3, countdown off,
\* polling off; anything else gives step 0, countdown off, polling off; and
\* scanStatus is the reported status in every case.
C20_MountMapping ==
  [][ LastScanStep =>
      \A s \in Statuses, h \in BOOLEAN, t \in PickTimes :
        LastScanOk(s, h, t) =>
          /\ scanStatus' = s
          /\ IF s = "Pending" /\ h
             THEN /\ step' = 1 /\ countdownActive' /\ ~polling'
                  /\ selectedDateTime'.inst = t
             ELSE IF s = "InProgress"
             THEN step' = 2 /\ ~countdownActive' /\ polling'
             ELSE IF s = "Completed"
             THEN step' = 3 /\ ~countdownActive' /\ ~polling'
             ELSE step' = 0 /\ ~countdownActive' /\ ~polling'
    ]_vars

\* the mount response reported a pending scan with its time: the countdown
\* to that time runs, nothing having been scheduled from this page
C20_Witness ==
  /\ phase = "mounted" /\ lastScanReq = "done" /\ ~awaiting /\ triggerReqs = << >>
  /\ scanStatus = "Pending" /\ step = 1 /\ cdTimer /\ selectedDateTime.inst = 2500

\* a step in which handleSignin resumed with the outcome of its request
SiSettleStep == Len(siReq') < Len(siReq)

\* what the page shows for the error: nothing for a falsy value, the items
\* of an array, the text of a string
SiRendered(e) == IF Truthy(e) THEN e.s ELSE << >>

\* C21: handleSignin: submitting is true exactly while the request is
\* awaited and false once it settled, whatever the outcome; localStorage
\* "email" and "user" are written, and the router is sent to the onboarding
\* page, only by an OK response; any other outcome writes nothing, does not
\* navigate and leaves a non-empty error message on the page.
C21_SigninOutcome ==
  /\ [](siMounted => (submitting <=> siReq # << >>))
  /\ [][ /\ SiSettleStep => ~submitting'
         /\ ( \/ lsEmailItem' # lsEmailItem
              \/ lsUserItem' # lsUserItem
              \/ PageOf(siPath') = "UserOnboarding" /\ siPath' # siPath )
            => \E u \in SiUsers : SigninOk(u)
         /\ (SiSettleStep /\ ~(\E u \in SiUsers : SigninOk(u)))
            => /\ UNCHANGED << lsEmailItem, lsUserItem, siPath >>
               /\ siMounted => SiRendered(siError') # << >> ]_vars

\* a request was rejected with neither detail nor message in its body, after
\* an earlier sign-in had left its items in localStorage
C21_Witness ==
  /\ siMounted /\ siSubmits > 0 /\ siReq = << >> /\ ~submitting
  /\ siError = SiLoginFailed
  /\ lsEmailItem # Null

\* a value the DB size input stores for a text typed into it
TypedSize(v) == v # Str(<< >>) /\ \E text \in RawInputs : v = Str(Sanitise(text))

\* C22: saving sends the data of all panes at once: the payload carries the
\* email and, for every field of every pane, the value the form holds or
\* null when the field is empty, and it carries every DB size typed into
\* the Database pane, whichever pane is shown and whichever db_type is
\* selected at the time.
C22_PayloadHasAllPanes ==
  [][ CfgPostStep =>
        LET sent == cfgPosts'[Len(cfgPosts')]
        IN /\ sent.email = "user"
           /\ \A k \in TypeFields :
                 sent.body[k] = IF Filled(allFormValues[k]) THEN allFormValues[k] ELSE JsNull
           /\ \A k \in DbSizeKeys :
                 TypedSize(allFormValues[k]) => sent.body[k] = allFormValues[k]
    ]_vars

\* a saved value: present, and not null, empty or false
HasSavedValue(v) == v # Undefined /\ v # JsNull /\ v # Str(<< >>) /\ v # JsFalse

\* the panes, by their place in CONFIG_TYPES, that have a saved value
PanesWithValue(config) ==
  { i \in 1..Len(CONFIG_TYPES) :
      \E f \in FieldsOf(CONFIG_TYPES[i]) : HasSavedValue(config[f]) }

\* C23: when the latest configuration is loaded, the pane selected is the
\* first one in CONFIG_TYPES order with a saved value, and General when no
\* pane has one; absent, null, empty and false values do not count.
C23_AutoSelectFirstSavedPane ==
  [][ (cfgGets # << >> /\ selectedType = "") =>
        \A config \in Configs :
           CfgLoadOk(config) =>
              LET with == PanesWithValue(config)
              IN selectedType' =
                   IF with = { } THEN "general"
                   ELSE CONFIG_TYPES[CHOOSE i \in with : \A j \in with : i <= j].key
    ]_vars

\* a step in which handleSubmit resumed with the outcome of its GET
CfgReloadStep ==
  /\ Len(cfgGets') < Len(cfgGets)
  /\ \E i \in 1..Len(cfgGets) : cfgGets[i].from = "submit" /\ cfgGets' = Remove(cfgGets, i)

\* C24: the message after a save tells the outcome of the POST: the failure
\* message appears only in the step that receives a failed POST, and the
\* success message of a POST that succeeded stays whatever the follow-up GET
\* answers.
C24_MessageFollowsPost ==
  [][ /\ (message' = MsgFailed /\ message # MsgFailed) => \E i \in 1..Len(cfgPosts) : CfgPostFail(i)
      /\ (CfgReloadStep /\ message = MsgSaved) => message' = MsgSaved
    ]_vars

\* a criterion of the filter form that is set: touched and not empty
CriterionSet(k) == filters[k] # Undefined /\ filters[k] # Str(<< >>)

\* an item matches a criterion that is set
Matches(item, k) ==
  IF k = "TotalCost"
  THEN /\ ~parseFloat(filters[k]).nan
       /\ item.TotalCost.t = "number"
       /\ item.TotalCost.n <= parseFloat(filters[k]).n
  ELSE item[k] = filters[k]

IsDescending(seq) == \A i \in 1..(Len(seq) - 1) : CostOf(seq[i]) >= CostOf(seq[i + 1])

\* C25: applyFilter sets filteredResources to exactly the loaded resources
\* that match every criterion the user has set, in descending TotalCost
\* order; an empty or untouched criterion restricts nothing, so with no
\* criterion set all resources are kept.
C25_ApplyKeepsMatching ==
  [][ (lastOp' = "apply") =>
        /\ filteredResources' =
             SelectSeq(resources,
                       LAMBDA item : \A k \in FilterKeys : CriterionSet(k) => Matches(item, k))
        /\ IsDescending(filteredResources')
    ]_vars

\* C26: clearFilters right after applyFilter restores what was shown after
\* the load: filteredResources is the full sorted list, and the cloud
\* provider and entity summaries have the totals and the descending order
\* they had after the load; applyFilter and clearFilters leave the loaded
\* resources and the other summaries alone.
C26_ClearRestoresLoad ==
  [][ /\ (lastOp = "apply" /\ lastOp' = "clear") =>
           /\ filteredResources' = SortedByCost(resData)
           /\ cloudProviderSummary' = SortedSummary(CostBy(resData, "CloudProvider"))
           /\ entityCostSummary' = SortedSummary(CostBy(resData, "Entity"))
      /\ (lastOp' \in { "apply", "clear" }) => UNCHANGED << resources, cioCostSummary >>
    ]_vars

\* a step in which handleSubmit of the onboarding form resumed with the
\* outcome of its request
OnbResponseStep == Len(uoPosts') < Len(uoPosts)

\* C27: every entry a successful submit removes from the pending list was
\* in the payload of that submit, so nothing added or changed while the
\* request was in flight is discarded by its OK response; a response that
\* is not OK, or a network error, leaves the pending list as it is.
C27_SubmitRemovesOnlyPosted ==
  [][ OnbResponseStep =>
        /\ \A i \in 1..Len(uoPosts) :
              OnbSubmitOk(i) =>
                 \A k \in 1..Len(usersList) :
                    (\A n \in 1..Len(usersList') : usersList'[n] # usersList[k])
                      => \E j \in 1..Len(uoPosts[i].users) : uoPosts[i].users[j] = usersList[k]
        /\ (uoAlert' # "message") => usersList' = usersList
    ]_vars

=============================================================================
